---- MODULE Spec2Model ----
(***************************************************************************)
(* triomphe src/header.rs: the builders of Arc<HeaderSlice<H, [T]>>.       *)
(*                                                                         *)
(* One call of from_header_and_iter, from_header_and_slice or              *)
(* from_header_and_str is followed statement by statement.  Machine words  *)
(* (usize) are WordBits wide; a struct value is the sequence of its field  *)
(* values; the slice region of the block is the sequence of the elements   *)
(* written so far (both builders write from index 0 upwards).              *)
(***************************************************************************)
EXTENDS Integers, Sequences, FiniteSets, TLC

\* ------------------------------------------------------------------ bounds
\* Width of usize in bits.
WordBits == 16
\* Longest real sequence (producer items, buffer, text characters).
MaxLen == 3

\* ------------------------------------------------------- machine integers
Pow2[k \in Nat] == IF k = 0 THEN 1 ELSE 2 * Pow2[k - 1]

\* usize::MAX + 1
Word == Pow2[WordBits]

usize_MAX == Word - 1

\* isize::MAX, the limit Layout::from_size_align works with
isize_MAX == Pow2[WordBits - 1] - 1

\* size_of::<usize>() = size_of::<AtomicUsize>()
WordBytes == WordBits \div 8

Max(a, b) == IF a >= b THEN a ELSE b

\* x & y on non-negative integers, bit by bit
RECURSIVE BitAnd(_, _)
BitAnd(x, y) ==
    IF x = 0 \/ y = 0 THEN 0
    ELSE (IF x % 2 = 1 /\ y % 2 = 1 THEN 1 ELSE 0) + 2 * BitAnd(x \div 2, y \div 2)

\* !x on a usize
BitNot(x) == usize_MAX - x

wrapping_add(a, b) == (a + b) % Word

\* a.checked_mul(b): None on overflow
checked_mul_wraps(a, b) == [some |-> TRUE, val |-> (a * b) % Word]
checked_mul(a, b) ==
    IF a * b > usize_MAX THEN [some |-> FALSE, val |-> 0]
    ELSE [some |-> TRUE, val |-> a * b]

\* a.checked_add(b): None on overflow
checked_add(a, b) ==
    IF a + b > usize_MAX THEN [some |-> FALSE, val |-> 0]
    ELSE [some |-> TRUE, val |-> a + b]

IsPow2(a) == \E k \in 0..WordBits : a = Pow2[k]

\* Layout::from_size_align(size, align).is_ok()
Layout_from_size_align(size, align) ==
    /\ IsPow2(align)
    /\ size <= isize_MAX - (align - 1)

\* ------------------------------------------------------------ type layouts
\* size_of / align_of of the element types T of the model
TTypes ==
    { [name |-> "zst", size |-> 0, align |-> 1],
      [name |-> "u8",  size |-> 1, align |-> 1],
      [name |-> "u16", size |-> 2, align |-> 2],
      [name |-> "u64", size |-> 8, align |-> 8] }

U8 == [name |-> "u8", size |-> 1, align |-> 1]
U16 == [name |-> "u16", size |-> 2, align |-> 2]

\* size_of / align_of of the header types H of the model:
\* (), (u32, u8) and HeaderWithLength<()>
UnitTy == [name |-> "unit", size |-> 0, align |-> 1]
PairTy == [name |-> "pair", size |-> 8, align |-> 4]
HwlTy == [name |-> "hwl", size |-> WordBytes, align |-> WordBytes]

\* padding of repr(C): the next multiple of align at or after off
PadTo(off, align) == ((off + align - 1) \div align) * align

\* align_of::<HeaderSlice<H, [T; 0]>>()
align_of_HeaderSlice(tyH, tyT) == Max(tyH.align, tyT.align)

\* offset_of!(ArcInner<HeaderSlice<H, [T; 0]>>, data): count, then data
inner_to_data_offset(tyH, tyT) == PadTo(WordBytes, align_of_HeaderSlice(tyH, tyT))

\* offset_of!(HeaderSlice<H, [T; 0]>, slice): header, then slice
data_to_slice_offset(tyH, tyT) == PadTo(tyH.size, tyT.align)

\* align_of::<ArcInner<HeaderSlice<H, [T; 0]>>>()
align_of_ArcInner(tyH, tyT) == Max(WordBytes, align_of_HeaderSlice(tyH, tyT))

\* usable_size.wrapping_add(align - 1) & !(align - 1)
round_up_plus_align(usable_size, align) ==
    BitAnd(wrapping_add(usable_size, align), BitNot(align - 1))
round_up_to_align(usable_size, align) ==
    BitAnd(wrapping_add(usable_size, align - 1), BitNot(align - 1))

NoLayout ==
    [panic |-> "", slice_offset |-> 0, slice_size |-> 0, usable_size |-> 0,
     align |-> 0, size |-> 0]

\* The size computation shared, line for line, by the two builders: the panic
\* message ("" when none) and the values computed up to that point.
compute_layout(tyH, tyT, n) ==
    LET slice_offset == inner_to_data_offset(tyH, tyT) + data_to_slice_offset(tyH, tyT)
        slice_size   == checked_mul(tyT.size, n)
        usable_size  == checked_add(slice_offset, slice_size.val)
        align        == align_of_ArcInner(tyH, tyT)
        size         == round_up_to_align(usable_size.val, align)
        base         == [NoLayout EXCEPT !.slice_offset = slice_offset, !.align = align]
    IN  IF ~slice_size.some THEN [base EXCEPT !.panic = "size overflows"]
        ELSE IF ~usable_size.some
             THEN [base EXCEPT !.panic = "size overflows", !.slice_size = slice_size.val]
        ELSE LET l == [base EXCEPT !.slice_size = slice_size.val,
                                   !.usable_size = usable_size.val, !.size = size]
             IN  IF size < usable_size.val THEN [l EXCEPT !.panic = "size overflows"]
                 ELSE IF ~Layout_from_size_align(size, align)
                      THEN [l EXCEPT !.panic = "invalid layout"]
                 ELSE l

\* ------------------------------------------------------------------ inputs
\* element values
Values == {1, 2}

\* what a call of items.next() can do
Some(v) == [kind |-> "some", val |-> v]
None == [kind |-> "none", val |-> 0]
Panics == [kind |-> "panic", val |-> 0]

\* the sequence of the tests from_header_and_iter_smoke / from_header_and_slice_smoke
SmokeItems == <<1, 2, 3, 4, 5, 6, 7>>

ItemSeqs == UNION { [1..k -> Values] : k \in 0..MaxLen } \cup {SmokeItems}

\* how a producer goes on after its items: exhausted for good, a panic in
\* next(), or (an iterator that is not fused) None and then one more item
Tails == { <<>>, <<Panics>>, <<None, Some(1)>> }

Scripts == { [i \in 1..Len(s) |-> Some(s[i])] \o t : s \in ItemSeqs, t \in Tails }

\* lengths a producer can declare without holding that many items
BigLens == { Word \div 8, Word \div 2, Word - 3, Word - 1 }

DeclaredLens == (0..(MaxLen + 1)) \cup {Len(SmokeItems)} \cup BigLens

\* UTF-8 encodings of the characters of the model's texts: "a" and U+00E9
CharBytes == { <<97>>, <<195, 169>> }

RECURSIVE Flatten(_)
Flatten(ss) == IF ss = <<>> THEN <<>> ELSE Head(ss) \o Flatten(Tail(ss))

\* string.as_bytes() of every valid text of at most MaxLen characters
Strs == { Flatten(cs) : cs \in UNION { [1..k -> CharBytes] : k \in 0..MaxLen } }

\* HeaderWithLength::new(header, length): the fields, in repr(C) order
HeaderWithLength_new_zero(header, length) == header \o <<0>>
HeaderWithLength_new(header, length) == header \o <<length>>

\* header.length of a HeaderWithLength value
length_of(h) == h[Len(h)]

PlainHeaders ==
    { [ty |-> UnitTy, val |-> <<>>, length |-> 0],
      [ty |-> PairTy, val |-> <<42, 17>>, length |-> 0],
      [ty |-> PairTy, val |-> <<7, 9>>, length |-> 0] }

\* the headers a caller passes: a plain one, or HeaderWithLength::new((), k)
Headers ==
    PlainHeaders \cup
    { [ty |-> HwlTy,
       val |-> HeaderWithLength_new(<<>>, k), length |-> k] : k \in 0..(MaxLen + 1) }

\* ------------------------------------------------------------------- state
VARIABLES
    pc,          \* the statement the call is at
    builder,     \* "iter", "slice" or "str": the entry point called
    tyH, tyT,    \* the layouts of H and T
    header,      \* the header argument
    new_length,  \* the length given to HeaderWithLength::new (0 for a plain header)
    declared,    \* what items.len() answers
    items,       \* the producer: what its next calls of next() do
    items0,      \* the producer as it was passed
    src,         \* the buffer argument (items: &[T], string.as_bytes())
    len_read,    \* items.len() has been called
    num_items,
    layout,      \* slice_offset, slice_size, usable_size, align, size
    allocs,      \* calls of alloc::alloc::alloc
    block,       \* the allocation
    current,     \* the write cursor, in elements from the start of the slice
    elem_writes, \* elements written into the slice region
    handle,      \* the Arc returned
    exhausted,   \* asserts of items.next().is_none() passed
    panic_msg

vars == <<pc, builder, tyH, tyT, header, new_length, declared, items, items0, src,
          len_read, num_items, layout, allocs, block, current, elem_writes, handle,
          exhausted, panic_msg>>

args == <<builder, tyH, tyT, header, new_length, declared, items0, src>>

NoBlock ==
    [allocated |-> FALSE, size |-> 0, align |-> 0, count |-> <<>>,
     header_init |-> FALSE, header |-> <<>>, slice |-> <<>>, dropped |-> 0]

NoHandle == [valid |-> FALSE, len |-> 0, ty |-> "none"]

Init ==
    /\ pc = "idle"
    /\ builder = "none"
    /\ tyH = UnitTy
    /\ tyT = U8
    /\ header = <<>>
    /\ new_length = 0
    /\ declared = 0
    /\ items = <<>>
    /\ items0 = <<>>
    /\ src = <<>>
    /\ len_read = FALSE
    /\ num_items = 0
    /\ layout = NoLayout
    /\ allocs = 0
    /\ block = NoBlock
    /\ current = 0
    /\ elem_writes = 0
    /\ handle = NoHandle
    /\ exhausted = 0
    /\ panic_msg = ""

\* ------------------------------------------------------------ entry points
\* Arc::from_header_and_iter(header, items)
from_header_and_iter ==
    /\ pc = "idle"
    /\ \E h \in Headers, t \in TTypes, s \in Scripts, n \in DeclaredLens :
          /\ builder' = "iter"
          /\ tyH' = h.ty
          /\ header' = h.val
          /\ new_length' = h.length
          /\ tyT' = t
          /\ items' = s
          /\ items0' = s
          /\ declared' = n
    /\ pc' = "assert_zst"
    /\ UNCHANGED <<src, len_read, num_items, layout, allocs, block, current,
                   elem_writes, handle, exhausted, panic_msg>>

\* Arc::from_header_and_slice(header, items)
from_header_and_slice ==
    /\ pc = "idle"
    /\ \E h \in Headers, t \in TTypes, s \in ItemSeqs :
          /\ builder' = "slice"
          /\ tyH' = h.ty
          /\ header' = h.val
          /\ new_length' = h.length
          /\ tyT' = t
          /\ src' = s
          /\ declared' = Len(s)
    /\ pc' = "assert_zst"
    /\ UNCHANGED <<items, items0, len_read, num_items, layout, allocs, block, current,
                   elem_writes, handle, exhausted, panic_msg>>

\* Arc::from_header_and_str(header, string): calls from_header_and_slice on
\* string.as_bytes()
from_header_and_str ==
    /\ pc = "idle"
    /\ \E h \in Headers, s \in Strs :
          /\ builder' = "str"
          /\ tyH' = h.ty
          /\ header' = h.val
          /\ new_length' = h.length
          /\ tyT' = U8
          /\ src' = s
          /\ declared' = Len(s)
    /\ pc' = "assert_zst"
    /\ UNCHANGED <<items, items0, len_read, num_items, layout, allocs, block, current,
                   elem_writes, handle, exhausted, panic_msg>>

\* ------------------------------------------------------------------- steps
\* assert_ne!(mem::size_of::<T>(), 0, ...) passes
zst_assert_missing(size_of_T) == TRUE
zst_assert_passes(size_of_T) == size_of_T # 0

\* Unwinding out of the builder: nothing owns the buffer (ptr is a raw pointer,
\* header and count were moved into it), so it is left as it is.
unwind_destroys(b) ==
    [b EXCEPT !.allocated = FALSE,
              !.dropped = Len(b.slice) + (IF b.header_init THEN 1 ELSE 0)]
unwind(b) == b

Panic(msg) ==
    /\ pc' = "panicked"
    /\ panic_msg' = msg
    /\ block' = unwind(block)

\* assert_ne!(mem::size_of::<T>(), 0, "Need to think about ZST")
assert_zst ==
    /\ pc = "assert_zst"
    /\ \/ /\ zst_assert_passes(tyT.size)
          /\ pc' = "read_len"
          /\ UNCHANGED <<panic_msg, block>>
       \/ /\ ~zst_assert_passes(tyT.size)
          /\ Panic("Need to think about ZST")
    /\ UNCHANGED <<args, items, len_read, num_items, layout, allocs, current,
                   elem_writes, handle, exhausted>>

\* let num_items = items.len();
read_len ==
    /\ pc = "read_len"
    /\ num_items' = declared
    /\ len_read' = TRUE
    /\ pc' = "layout"
    /\ UNCHANGED <<args, items, layout, allocs, block, current, elem_writes, handle, exhausted,
                   panic_msg>>

\* slice_offset, slice_size, usable_size, align, size and the Layout
layout_step ==
    /\ pc = "layout"
    /\ layout' = compute_layout(tyH, tyT, num_items)
    /\ \/ /\ layout'.panic = ""
          /\ pc' = "alloc"
          /\ UNCHANGED <<panic_msg, block>>
       \/ /\ layout'.panic # ""
          /\ Panic(layout'.panic)
    /\ UNCHANGED <<args, items, len_read, num_items, allocs, current, elem_writes,
                   handle, exhausted>>

\* let buffer = alloc::alloc::alloc(layout); null ends the process in
\* handle_alloc_error
alloc_step ==
    /\ pc = "alloc"
    /\ allocs' = allocs + 1
    /\ \/ /\ block' = [NoBlock EXCEPT !.allocated = TRUE, !.size = layout.size,
                                      !.align = layout.align]
          /\ pc' = "init"
       \/ /\ pc' = "aborted"
          /\ UNCHANGED block
    /\ UNCHANGED <<args, items, len_read, num_items, layout, current, elem_writes,
                   handle, exhausted, panic_msg>>

\* AtomicUsize::new(1)
initial_count_zero == <<0>>
initial_count == <<1>>

\* if num_items != 0
nonempty(n) == n # 0

\* ptr::write of count and of header, then the builder's branch to its writes
init_block ==
    /\ pc = "init"
    /\ block' = [block EXCEPT !.count = initial_count, !.header_init = TRUE,
                              !.header = header]
    /\ current' = 0
    /\ pc' = IF builder = "iter"
             THEN (IF nonempty(num_items) THEN "loop" ELSE "check_final")
             ELSE "copy"
    /\ UNCHANGED <<args, items, len_read, num_items, layout, allocs, elem_writes,
                   handle, exhausted, panic_msg>>

\* items.next(): the answer and the producer afterwards
next_of(it) == IF it = <<>> THEN None ELSE Head(it)
rest_of(it) == IF it = <<>> THEN <<>> ELSE Tail(it)

\* ptr::write(current, v) on the slice region
ptr_write_front(slice, cur, v) == <<v>> \o slice
ptr_write(slice, cur, v) ==
    IF cur < Len(slice) THEN [slice EXCEPT ![cur + 1] = v]
    ELSE slice \o [i \in 1..(cur - Len(slice)) |-> 0] \o <<v>>

\* for _ in 0..num_items: ptr::write(current, items.next().expect(..)), then
\* current = current.offset(1)
loop_write ==
    /\ pc = "loop"
    /\ current < num_items
    /\ items' = rest_of(items)
    /\ \/ /\ next_of(items).kind = "some"
          /\ block' = [block EXCEPT !.slice = ptr_write(block.slice, current, next_of(items).val)]
          /\ current' = current + 1
          /\ elem_writes' = elem_writes + 1
          /\ pc' = IF current' < num_items THEN "loop" ELSE "check_loop"
          /\ UNCHANGED panic_msg
       \/ /\ next_of(items).kind = "none"
          /\ Panic("ExactSizeIterator over-reported length")
          /\ UNCHANGED <<current, elem_writes>>
       \/ /\ next_of(items).kind = "panic"
          /\ Panic("producer panicked")
          /\ UNCHANGED <<current, elem_writes>>
    /\ UNCHANGED <<args, len_read, num_items, layout, allocs, handle, exhausted>>

\* items.next().is_none()
is_none_always(x) == TRUE
is_none_inverted(x) == x.kind = "some"
is_none(x) == x.kind = "none"

\* one assert!(items.next().is_none(), "ExactSizeIterator under-reported length")
assert_exhausted(then) ==
    /\ items' = rest_of(items)
    /\ \/ /\ next_of(items).kind # "panic"
          /\ is_none(next_of(items))
          /\ pc' = then
          /\ exhausted' = exhausted + 1
          /\ UNCHANGED <<panic_msg, block>>
       \/ /\ next_of(items).kind # "panic"
          /\ ~is_none(next_of(items))
          /\ Panic("ExactSizeIterator under-reported length")
          /\ UNCHANGED exhausted
       \/ /\ next_of(items).kind = "panic"
          /\ Panic("producer panicked")
          /\ UNCHANGED exhausted
    /\ UNCHANGED <<args, len_read, num_items, layout, allocs, current, elem_writes,
                   handle>>

\* the assert at the end of the if num_items != 0 block
check_loop ==
    /\ pc = "check_loop"
    /\ assert_exhausted("check_final")

\* the assert after the if block
check_final ==
    /\ pc = "check_final"
    /\ assert_exhausted("ret")

\* ptr::copy_nonoverlapping(items.as_ptr(), current, num_items)
copy_nonoverlapping(from, slice, count) ==
    SubSeq(from, 1, count) \o SubSeq(slice, count + 1, Len(slice))

copy_step ==
    /\ pc = "copy"
    /\ block' = [block EXCEPT !.slice = copy_nonoverlapping(src, block.slice, num_items)]
    /\ elem_writes' = elem_writes + num_items
    /\ pc' = "ret"
    /\ UNCHANGED <<args, items, len_read, num_items, layout, allocs, current, handle, exhausted,
                   panic_msg>>

\* Arc { p: NonNull::new_unchecked(ptr), .. }: ptr is the fat pointer made by
\* slice_from_raw_parts_mut(buffer as *mut T, num_items)
fat_pointer(n) == [valid |-> TRUE, len |-> n, ty |-> "slice"]

\* Arc::from_raw_inner(Arc::into_raw_inner(bytes) as _): [u8] seen as str
retype_drops_len(h) == [h EXCEPT !.ty = "str", !.len = 0]
retype_as_str(h) == [h EXCEPT !.ty = "str"]

return_handle ==
    /\ pc = "ret"
    /\ handle' = fat_pointer(num_items)
    /\ pc' = IF builder = "str" THEN "retype" ELSE "done"
    /\ UNCHANGED <<args, items, len_read, num_items, layout, allocs, block, current,
                   elem_writes, exhausted, panic_msg>>

retype_str ==
    /\ pc = "retype"
    /\ handle' = retype_as_str(handle)
    /\ pc' = "done"
    /\ UNCHANGED <<args, items, len_read, num_items, layout, allocs, block, current,
                   elem_writes, exhausted, panic_msg>>

Next ==
    \/ from_header_and_iter
    \/ from_header_and_slice
    \/ from_header_and_str
    \/ assert_zst
    \/ read_len
    \/ layout_step
    \/ alloc_step
    \/ init_block
    \/ loop_write
    \/ check_loop
    \/ check_final
    \/ copy_step
    \/ return_handle
    \/ retype_str

Spec == Init /\ [][Next]_vars

\* ---------------------------------------------------------------- readings
\* the items a producer yields before its first None or panic
RECURSIVE Yielded(_)
Yielded(script) ==
    IF script = <<>> \/ Head(script).kind # "some" THEN <<>>
    ELSE <<Head(script).val>> \o Yielded(Tail(script))

\* an exact-size iterator over a sequence: it declares the number of items it
\* holds, yields them and is exhausted
Honest(script, n) ==
    /\ Len(script) = n
    /\ \A i \in 1..Len(script) : script[i].kind = "some"

\* the byte offset of the sequence in the block, and the sizes and alignment
\* the claims compare with, in unbounded integers
SliceOffset == inner_to_data_offset(tyH, tyT) + data_to_slice_offset(tyH, tyT)
TrueSliceSize == tyT.size * num_items
TrueUsable == SliceOffset + TrueSliceSize
BlockAlign == Max(WordBytes, Max(tyH.align, tyT.align))

Terminal == {"done", "panicked", "aborted"}

ProducerPanicked == panic_msg = "producer panicked"

\* ------------------------------------------------------------------ claims
\* C1: built from an exact-size iterator over s, or from the buffer s, of
\* non-zero-sized elements, the build does not panic and the handle returned
\* has the header passed, length |s| and the elements of s in their order.
RoundTrip ==
    /\ (builder = "iter" /\ Honest(items0, declared) /\ tyT.size # 0) =>
          /\ pc # "panicked"
          /\ pc = "done" =>
                /\ handle.valid
                /\ block.header = header
                /\ handle.len = Len(items0)
                /\ block.slice = Yielded(items0)
    /\ (builder = "slice" /\ tyT.size # 0) =>
          /\ pc # "panicked"
          /\ pc = "done" =>
                /\ handle.valid
                /\ block.header = header
                /\ handle.len = Len(src)
                /\ block.slice = src

RoundTripWitness ==
    /\ pc = "done"
    /\ builder = "iter"
    /\ header = <<42, 17>>
    /\ tyT = U16
    /\ Honest(items0, declared)
    /\ block.slice = SmokeItems

\* C2: a producer that declared n and yields n-1 or n+1 items makes
\* from_header_and_iter panic: the call never reaches its return, and no
\* handle ever exists whose slice region holds fewer or more elements than
\* the length the handle records.
UnderOverReport ==
    /\ (/\ builder = "iter"
        /\ len_read
        /\ \/ Len(Yielded(items0)) = num_items - 1
           \/ Len(Yielded(items0)) = num_items + 1) =>
          /\ ~handle.valid
          /\ pc \notin {"ret", "done"}
          /\ (pc \notin Terminal) => ENABLED Next
    /\ handle.valid =>
          /\ Len(block.slice) = handle.len
          /\ elem_writes = handle.len

UnderOverReportWitness ==
    /\ pc = "panicked"
    /\ builder = "iter"
    /\ num_items = 0
    /\ Len(Yielded(items0)) = 1
    /\ panic_msg = "ExactSizeIterator under-reported length"

\* C3: when size_of(T) * n, slice_offset + size_of(T) * n or that sum rounded
\* up to the alignment does not fit a usize, the build panics without having
\* called the allocator; an allocation is never requested with a size below
\* the unbounded slice_offset + n * size_of(T).
OverflowGuard ==
    /\ (/\ len_read
        /\ pc # "layout"
        /\ \/ TrueSliceSize > usize_MAX
           \/ TrueUsable > usize_MAX
           \/ PadTo(TrueUsable, BlockAlign) > usize_MAX) =>
          /\ pc = "panicked"
          /\ panic_msg = "size overflows"
          /\ allocs = 0
          /\ ~block.allocated
    /\ allocs > 0 => layout.size >= TrueUsable
    /\ block.allocated => block.size >= TrueUsable

OverflowGuardWitness ==
    /\ pc = "panicked"
    /\ panic_msg = "size overflows"
    /\ TrueSliceSize <= usize_MAX
    /\ TrueUsable <= usize_MAX
    /\ PadTo(TrueUsable, BlockAlign) > usize_MAX

TextFidelity ==
    builder = "str" =>
        /\ pc # "panicked"
        /\ pc = "retype" =>
              /\ handle = fat_pointer(Len(src))
              /\ block.slice = src
              /\ block.header = header
        /\ pc = "done" =>
              /\ handle.valid
              /\ handle.ty = "str"
              /\ handle.len = Len(src)
              /\ block.slice = src
              /\ block.header = header

TextFidelityWitness ==
    /\ builder = "str"
    /\ pc = "done"
    /\ block.slice = <<97, 195, 169>>
    /\ handle.ty = "str"

\* C7: with size_of(T) = 0 both builders panic at their first statement, for
\* every header and length: items.len() has not been read, no layout has
\* been computed and the allocator has not been called.
ZstRejected ==
    /\ pc = "assert_zst" => (~len_read /\ layout = NoLayout /\ allocs = 0)
    /\ (tyT.size = 0 /\ pc \notin {"idle", "assert_zst"}) =>
          /\ pc = "panicked"
          /\ panic_msg = "Need to think about ZST"
          /\ ~len_read
          /\ layout = NoLayout
          /\ allocs = 0
          /\ block = NoBlock
          /\ ~handle.valid

ZstRejectedWitness ==
    /\ pc = "panicked"
    /\ tyT.size = 0
    /\ builder = "slice"
    /\ src = <<>>
    /\ panic_msg = "Need to think about ZST"

\* C8: whenever a handle exists, the block's count is 1, its header is the
\* header passed, all num_items elements are written, the handle records
\* num_items, and (from_header_and_iter) the producer was seen exhausted; the
\* count is never anything but unwritten or 1.
NoPartialHandle ==
    /\ block.count \in {<<>>, <<1>>}
    /\ handle.valid =>
          /\ pc \in {"retype", "done"}
          /\ block.allocated
          /\ block.count = <<1>>
          /\ block.header_init
          /\ block.header = header
          /\ Len(block.slice) = num_items
          /\ elem_writes = num_items
          /\ handle.len = num_items
          /\ builder = "iter" => exhausted >= 1

NoPartialHandleWitness ==
    /\ handle.valid
    /\ builder = "iter"
    /\ num_items = 3
    /\ exhausted = 2
    /\ block.count = <<1>>

\* C9: after a panic of the producer in from_header_and_iter the block is
\* still allocated, holds the header and the elements written before the
\* panic, nothing in it has been dropped, no handle exists, and nothing
\* runs afterwards.
PartialLeak ==
    ProducerPanicked =>
        /\ pc = "panicked"
        /\ ~ENABLED Next
        /\ block.allocated
        /\ block.dropped = 0
        /\ block.count = <<1>>
        /\ block.header_init
        /\ block.header = header
        /\ block.slice = SubSeq(Yielded(items0), 1, current)
        /\ elem_writes = current
        /\ ~handle.valid

PartialLeakWitness ==
    /\ ProducerPanicked
    /\ current = 2
    /\ num_items = 3
    /\ block.slice = <<1, 2>>
    /\ block.allocated

\* C10: a builder calls the allocator at most once, with the alignment of the
\* block and the smallest multiple of it that is at least
\* slice_offset + n * size_of(T).
AllocSizeAlign ==
    /\ allocs <= 1
    /\ block.allocated =>
          /\ allocs = 1
          /\ layout.usable_size = TrueUsable
          /\ block.align = BlockAlign
          /\ block.size % BlockAlign = 0
          /\ block.size >= TrueUsable
          /\ block.size < TrueUsable + BlockAlign

AllocSizeAlignWitness ==
    /\ block.allocated
    /\ builder = "slice"
    /\ num_items = 3
    /\ block.size > TrueUsable
====
